---- MODULE Spec2Model ----
(***************************************************************************)
(* Gravshift: the progression state (GameStateManager), the object pool    *)
(* (ObjectPool), the resource ledger (ResourceSystem), the oxygen part of  *)
(* the per-frame update, the collision pass and the frame loop with its    *)
(* event handlers (GravshiftGame), as state machines.                      *)
(*                                                                         *)
(* Units.  mass is kept in tenths (mass 1.0 is 10).  Ledger counters are   *)
(* kept in thousandths (oxygen 100 is 100000).  deltaTime is in hundredths *)
(* of a second, rates in tenths per second, so rate * deltaTime is a       *)
(* ledger amount.  Timer delays are in seconds.                            *)
(***************************************************************************)
EXTENDS Integers, Sequences, FiniteSets, TLC

VARIABLES
    \* GameStateManager
    score, mass, tier, currentMission, completedMissions, achievements,
    timeElapsed, debrisAbsorbed,
    timers,      \* pending setTimeout callbacks of completeMission: seconds left, in scheduling order
    lastOp,      \* the operation that ran last
    ret          \* what it returned

VARIABLES
    \* ObjectPool
    pool, active,
    created,     \* number of createFn calls so far; the entities are 1..created
    poolOp,      \* the pool operation that ran last
    poolRet,     \* what it returned
    resetCalls   \* the entities it passed to resetFn, in call order

VARIABLES
    \* ResourceSystem
    resources,
    listeners,   \* number of subscribed callbacks
    calls,       \* callback invocations made by the operation that ran last
    ledgerOp,    \* the ledger operation that ran last
    ledgerArg,   \* its arguments
    ledgerRet    \* what it returned

VARIABLES
    \* BuildingSystem and the frame clock of GravshiftGame
    buildings, gameTime

VARIABLES
    \* the debris around the player (GravshiftGame and GameEngine)
    debrisMasses,   \* userData.mass of each debris entity, fixed by createDebris
    touching,       \* the active debris closer to the player than the two radii
    carriedDebris,
    tested,         \* the debris distance-tested by the last checkCollisions, in order
    notes,          \* the ui notifications sent by the handler that ran last
    zones,          \* EnvironmentalSystem.zones, in creation order
    debrisNodes,    \* GameEngine.debrisNodes
    engineRecyclers, \* GameEngine.recyclers
    rewards         \* the rewards granted by processRecyclerAbsorption in the handler
                    \* that ran last

VARIABLES
    \* the frame loop of GravshiftGame
    isRunning, isPaused, buildMode, selectedBuildingType,
    pendingFrames,  \* requestAnimationFrame callbacks of gameLoop not yet run
    loopOp,         \* what ran last: "start" (startGame), "gameLoop" (a frame callback),
                    \* "click" (the click listener) or "event" (any other event handler)
    frame           \* what the last gameLoop invocation did

gsVars == <<score, mass, tier, currentMission, completedMissions, achievements,
            timeElapsed, debrisAbsorbed, timers, lastOp, ret>>
poolVars == <<pool, active, created, poolOp, poolRet, resetCalls>>
ledgerVars == <<resources, listeners, calls, ledgerOp, ledgerArg, ledgerRet>>
buildVars == <<buildings, gameTime>>
worldVars == <<debrisMasses, touching, carriedDebris, tested, notes,
               zones, debrisNodes, engineRecyclers, rewards>>
loopVars == <<isRunning, isPaused, buildMode, selectedBuildingType, pendingFrames,
              loopOp, frame>>

vars == <<gsVars, poolVars, ledgerVars, buildVars, worldVars, loopVars>>

----
\* Bounds of the model
MaxAbsorbed == 11
MaxTimers == 2
MaxScore == 1000
MaxAbsorbedState == 3

\* Inputs
MassAmounts == {20}
StateAmounts == {20, 500}
ScorePoints == {950}
TimeValues == {300}

----
\* Program constants
MassScale == 10
TimerDelay == 2
AchievementBonus == 50
RecycleDivisor == 40
NoMission == "null"

Max(a, b) == IF a >= b THEN a ELSE b
Min(a, b) == IF a <= b THEN a ELSE b

includes(seq, x) == \E i \in 1..Len(seq) : seq[i] = x

\* GameStateManager.getMissionsList, in catalog order
Missions ==
    << [id |-> "absorb_10",      difficulty |-> 1, reward |-> 100],
       [id |-> "reach_mass_3",   difficulty |-> 1, reward |-> 150],
       [id |-> "reach_tier_2",   difficulty |-> 1, reward |-> 200],
       [id |-> "absorb_50",      difficulty |-> 2, reward |-> 300],
       [id |-> "reach_mass_15",  difficulty |-> 2, reward |-> 400],
       [id |-> "reach_tier_4",   difficulty |-> 3, reward |-> 500],
       [id |-> "absorb_200",     difficulty |-> 4, reward |-> 800],
       [id |-> "reach_mass_100", difficulty |-> 5, reward |-> 1000],
       [id |-> "reach_tier_8",   difficulty |-> 6, reward |-> 2000] >>


missionById(id) == CHOOSE m \in {Missions[i] : i \in 1..Len(Missions)} : m.id = id

\* the condition closures of the catalog
missionCondition(id, s) ==
    CASE id = "absorb_10"      -> s.debrisAbsorbed >= 10
      [] id = "reach_mass_3"   -> s.mass >= 3 * MassScale
      [] id = "reach_tier_2"   -> s.tier >= 2
      [] id = "absorb_50"      -> s.debrisAbsorbed >= 50
      [] id = "reach_mass_15"  -> s.mass >= 15 * MassScale
      [] id = "reach_tier_4"   -> s.tier >= 4
      [] id = "absorb_200"     -> s.debrisAbsorbed >= 200
      [] id = "reach_mass_100" -> s.mass >= 100 * MassScale
      [] id = "reach_tier_8"   -> s.tier >= 8

\* GameStateManager.initializeAchievements, in array order
AchievementIds ==
    << "first_absorption", "mass_10", "mass_50", "mass_100", "tier_3", "tier_5",
       "score_1000", "score_5000", "survive_5min", "absorb_100" >>

NumAchievements == Len(AchievementIds)

achievementCondition(i, s) ==
    CASE i = 1  -> s.debrisAbsorbed >= 1
      [] i = 2  -> s.mass >= 10 * MassScale
      [] i = 3  -> s.mass >= 50 * MassScale
      [] i = 4  -> s.mass >= 100 * MassScale
      [] i = 5  -> s.tier >= 3
      [] i = 6  -> s.tier >= 5
      [] i = 7  -> s.score >= 1000
      [] i = 8  -> s.score >= 5000
      [] i = 9  -> s.timeElapsed >= 300
      [] i = 10 -> s.debrisAbsorbed >= 100

initializeAchievements == [i \in 1..NumAchievements |-> FALSE]

\* the state after the constructor
constructor ==
    [ score |-> 0, mass |-> 1 * MassScale, tier |-> 1, currentMission |-> NoMission,
      completedMissions |-> << >>, achievements |-> initializeAchievements,
      timeElapsed |-> 0, debrisAbsorbed |-> 0, timers |-> << >> ]

\* the object as a record
GS == [ score |-> score, mass |-> mass, tier |-> tier, currentMission |-> currentMission,
        completedMissions |-> completedMissions, achievements |-> achievements,
        timeElapsed |-> timeElapsed, debrisAbsorbed |-> debrisAbsorbed, timers |-> timers ]

\* variant for sensitivity checks: the breakpoint of tier 4 is taken from the
\* older table quoted in the comments of calculateTier
calculateTier_old(m) ==
    IF m < 3 * MassScale THEN 1
    ELSE IF m < 8 * MassScale THEN 2
    ELSE IF m < 35 * MassScale THEN 3
    ELSE IF m < 60 * MassScale THEN 5
    ELSE IF m < 100 * MassScale THEN 6
    ELSE IF m < 150 * MassScale THEN 7
    ELSE 8

calculateTier(m) ==
    IF m < 3 * MassScale THEN 1
    ELSE IF m < 8 * MassScale THEN 2
    ELSE IF m < 18 * MassScale THEN 3
    ELSE IF m < 35 * MassScale THEN 4
    ELSE IF m < 60 * MassScale THEN 5
    ELSE IF m < 100 * MassScale THEN 6
    ELSE IF m < 150 * MassScale THEN 7
    ELSE 8

\* variant for sensitivity checks: the selection ignores the tier
startNewMission_anyTier(s) ==
    LET avail(m) == ~includes(s.completedMissions, m.id)
        availableMissions == SelectSeq(Missions, avail)
    IN  IF Len(availableMissions) > 0
        THEN [s EXCEPT !.currentMission = availableMissions[1].id]
        ELSE s

startNewMission(s) ==
    LET avail(m) == ~includes(s.completedMissions, m.id) /\ m.difficulty <= s.tier
        availableMissions == SelectSeq(Missions, avail)
    IN  IF Len(availableMissions) > 0
        THEN [s EXCEPT !.currentMission = availableMissions[1].id]
        ELSE s

RECURSIVE checkAchievementsFrom(_, _)
RECURSIVE addScore(_, _)
RECURSIVE checkAchievementsFrom_again(_, _)

\* variant for sensitivity checks: an achievement that is already unlocked
\* awards its bonus again whenever its condition is evaluated true
checkAchievementsFrom_again(s, i) ==
    IF i > NumAchievements THEN [s |-> s, newly |-> << >>]
    ELSE IF ~achievementCondition(i, s) THEN checkAchievementsFrom_again(s, i + 1)
    ELSE IF s.achievements[i]
         THEN checkAchievementsFrom_again([s EXCEPT !.score = @ + AchievementBonus], i + 1)
         ELSE LET s1 == [s EXCEPT !.achievements[i] = TRUE]
                  s2 == addScore(s1, AchievementBonus)
                  r  == checkAchievementsFrom_again(s2, i + 1)
              IN  [s |-> r.s, newly |-> <<i>> \o r.newly]

\* the forEach of checkAchievements from array index i on; newly is the
\* array the call returns
checkAchievementsFrom(s, i) ==
    IF i > NumAchievements THEN [s |-> s, newly |-> << >>]
    ELSE IF ~s.achievements[i] /\ achievementCondition(i, s)
         THEN LET s1 == [s EXCEPT !.achievements[i] = TRUE]
                  s2 == addScore(s1, AchievementBonus)
                  r  == checkAchievementsFrom(s2, i + 1)
              IN  [s |-> r.s, newly |-> <<i>> \o r.newly]
         ELSE checkAchievementsFrom(s, i + 1)

addScore(s, points) ==
    checkAchievementsFrom([s EXCEPT !.score = @ + points], 1).s

checkAchievements(s) == checkAchievementsFrom(s, 1)

\* variant for sensitivity checks: the current mission is not cleared
completeMission_keep(s) ==
    IF s.currentMission = NoMission THEN s
    ELSE LET m  == missionById(s.currentMission)
             s1 == [s EXCEPT !.completedMissions = Append(@, m.id)]
             s2 == addScore(s1, m.reward)
         IN  [s2 EXCEPT !.timers = Append(@, TimerDelay)]

completeMission(s) ==
    IF s.currentMission = NoMission THEN s
    ELSE LET m  == missionById(s.currentMission)
             s1 == [s EXCEPT !.completedMissions = Append(@, m.id)]
             s2 == addScore(s1, m.reward)
         IN  [s2 EXCEPT !.currentMission = NoMission,
                        !.timers = Append(@, TimerDelay)]

checkMissionProgress(s) ==
    IF s.currentMission # NoMission /\ missionCondition(s.currentMission, s)
    THEN completeMission(s)
    ELSE s

\* variant for sensitivity checks: the tier is not recomputed
addMass_staleTier(s, amount) ==
    LET oldTier == s.tier
        s1 == [s EXCEPT !.mass = @ + amount, !.debrisAbsorbed = @ + 1]
        r  == checkAchievements(s1)
        s3 == checkMissionProgress(r.s)
    IN  [s |-> s3, ret |-> [tierUp |-> FALSE, achievements |-> r.newly]]

addMass(s, amount) ==
    LET oldTier == s.tier
        s1 == [s EXCEPT !.mass = @ + amount, !.debrisAbsorbed = @ + 1]
        s2 == [s1 EXCEPT !.tier = calculateTier(s1.mass)]
        tierUp == s2.tier > oldTier
        r  == checkAchievements(s2)
        s3 == checkMissionProgress(r.s)
    IN  [s |-> s3, ret |-> [tierUp |-> tierUp, achievements |-> r.newly]]

\* variant for sensitivity checks: a quarter of the mass without Math.floor
recycle_unfloored(s) ==
    IF s.mass <= 1 * MassScale THEN [s |-> s, ret |-> 0]
    ELSE LET recycled == s.mass \div 4
             points == recycled
             s1 == [s EXCEPT !.mass = Max(1 * MassScale, s.mass - recycled)]
             s2 == [s1 EXCEPT !.tier = calculateTier(s1.mass)]
         IN  [s |-> addScore(s2, points), ret |-> points]

recycle(s) ==
    IF s.mass <= 1 * MassScale THEN [s |-> s, ret |-> 0]
    ELSE LET recycleAmount == s.mass \div RecycleDivisor
             points == recycleAmount * 10
             s1 == [s EXCEPT !.mass = Max(1 * MassScale, s.mass - recycleAmount * MassScale)]
             s2 == [s1 EXCEPT !.tier = calculateTier(s1.mass)]
         IN  [s |-> addScore(s2, points), ret |-> points]

updateDifficulty(s, t) ==
    checkAchievements([s EXCEPT !.timeElapsed = t]).s

\* variant for sensitivity checks: reset builds fresh achievements
reset_clearAchievements(s) ==
    startNewMission(
        [s EXCEPT !.score = 0, !.mass = 1 * MassScale, !.tier = 1,
                  !.currentMission = NoMission, !.completedMissions = << >>,
                  !.achievements = initializeAchievements,
                  !.timeElapsed = 0, !.debrisAbsorbed = 0])

reset(s) ==
    startNewMission(
        [s EXCEPT !.score = 0, !.mass = 1 * MassScale, !.tier = 1,
                  !.currentMission = NoMission, !.completedMissions = << >>,
                  !.timeElapsed = 0, !.debrisAbsorbed = 0])

----
\* Fast-forwarding a session: states the program reaches after many
\* absorptions, computed with the operations above.

RECURSIVE expireTimers(_)
\* every pending setTimeout callback has run
expireTimers(s) ==
    IF s.timers = << >> THEN s
    ELSE expireTimers(startNewMission([s EXCEPT !.timers = Tail(@)]))

RECURSIVE absorbMany(_, _, _)
\* n absorptions of the same amount, more than two seconds apart (the first
\* half of them, then the rest)
absorbMany(s, amount, n) ==
    IF n = 0 THEN s
    ELSE IF n = 1 THEN expireTimers(addMass(s, amount).s)
    ELSE CHOOSE r \in { absorbMany(half, amount, n - (n \div 2)) :
                            half \in {absorbMany(s, amount, n \div 2)} } : TRUE

\* absorption counts just below the thresholds of the absorb_N missions
DeepAbsorbs == {9, 10, 11, 49, 50, 51, 199, 200, 201}
DeepAmounts == {5, 20}

----
\* Actions on the progression state

OthersUnchangedGS == UNCHANGED <<poolVars, ledgerVars, buildVars, worldVars, loopVars>>

Store(s, op, r) ==
    /\ score' = s.score
    /\ mass' = s.mass
    /\ tier' = s.tier
    /\ currentMission' = s.currentMission
    /\ completedMissions' = s.completedMissions
    /\ achievements' = s.achievements
    /\ timeElapsed' = s.timeElapsed
    /\ debrisAbsorbed' = s.debrisAbsorbed
    /\ timers' = s.timers
    /\ lastOp' = op
    /\ ret' = r
    /\ OthersUnchangedGS

NoRet == "none"

Holds(s) ==
    /\ score = s.score
    /\ mass = s.mass
    /\ tier = s.tier
    /\ currentMission = s.currentMission
    /\ completedMissions = s.completedMissions
    /\ achievements = s.achievements
    /\ timeElapsed = s.timeElapsed
    /\ debrisAbsorbed = s.debrisAbsorbed
    /\ timers = s.timers

AddMass ==
    \E amount \in MassAmounts :
        LET r == addMass(GS, amount) IN
        /\ debrisAbsorbed < MaxAbsorbed
        /\ Len(r.s.timers) <= MaxTimers
        /\ Store(r.s, "addMass", r.ret)

\* the same with fewer absorptions and larger debris
AddMassFew ==
    \E amount \in StateAmounts :
        LET r == addMass(GS, amount) IN
        /\ debrisAbsorbed < MaxAbsorbedState
        /\ Len(r.s.timers) <= MaxTimers
        /\ Store(r.s, "addMass", r.ret)

\* one more absorption in a fast-forwarded session
AddMassDeep ==
    \E amount \in DeepAmounts :
        LET r == addMass(GS, amount) IN
        /\ debrisAbsorbed \in DeepAbsorbs
        /\ Len(r.s.timers) <= MaxTimers
        /\ Store(r.s, "addMass", r.ret)

Recycle ==
    \E r \in {recycle(GS)} : Store(r.s, "recycle", r.ret)

AddScore ==
    \E points \in ScorePoints :
        /\ score + points <= MaxScore
        /\ Store(addScore(GS, points), "addScore", NoRet)

UpdateDifficulty ==
    \E t \in TimeValues :
        /\ t >= timeElapsed
        /\ Store(updateDifficulty(GS, t), "updateDifficulty", NoRet)

CheckAchievements ==
    \E r \in {checkAchievements(GS)} : Store(r.s, "checkAchievements", r.newly)

Reset ==
    \E s \in {reset(GS)} : Store(s, "reset", NoRet)

\* one second passes
Tick ==
    /\ \E i \in 1..Len(timers) : timers[i] > 0
    /\ timers' = [i \in 1..Len(timers) |-> Max(0, timers[i] - 1)]
    /\ lastOp' = "tick"
    /\ ret' = NoRet
    /\ UNCHANGED <<score, mass, tier, currentMission, completedMissions, achievements,
                   timeElapsed, debrisAbsorbed>>
    /\ OthersUnchangedGS

\* the callback of the oldest pending setTimeout runs
TimerFire ==
    /\ Len(timers) > 0
    /\ Head(timers) = 0
    /\ Store(startNewMission([GS EXCEPT !.timers = Tail(@)]), "timer", NoRet)

----
\* ObjectPool (GameEngine.js)

NoObject == 0

\* Array.prototype.indexOf, 1-based; 0 when absent
indexOf(seq, x) ==
    IF \E i \in 1..Len(seq) : seq[i] = x
    THEN CHOOSE i \in 1..Len(seq) : seq[i] = x /\ \A j \in 1..(i - 1) : seq[j] # x
    ELSE 0

\* Array.prototype.splice(index, 1)
splice(seq, index) == SubSeq(seq, 1, index - 1) \o SubSeq(seq, index + 1, Len(seq))

PoolObj == [pool |-> pool, active |-> active, created |-> created, resets |-> << >>]

poolConstructor(initialSize) ==
    [pool |-> [i \in 1..initialSize |-> i], active |-> << >>, created |-> initialSize,
     resets |-> << >>]

acquire(p) ==
    IF Len(p.pool) > 0
    THEN LET obj == p.pool[Len(p.pool)]
         IN  [p |-> [p EXCEPT !.pool = SubSeq(@, 1, Len(@) - 1), !.active = Append(@, obj)],
              ret |-> obj]
    ELSE LET obj == p.created + 1
         IN  [p |-> [p EXCEPT !.created = obj, !.active = Append(@, obj)], ret |-> obj]

\* variant for sensitivity checks: the entity is pushed even when it is not active
release_unchecked(p, obj) ==
    LET index == indexOf(p.active, obj)
    IN  [p EXCEPT !.active = IF index > 0 THEN splice(@, index) ELSE @,
                  !.resets = Append(@, obj),
                  !.pool = Append(@, obj)]

release(p, obj) ==
    LET index == indexOf(p.active, obj)
    IN  IF index > 0
        THEN [p EXCEPT !.active = splice(@, index), !.resets = Append(@, obj),
                       !.pool = Append(@, obj)]
        ELSE p

\* variant for sensitivity checks: the lists are emptied and refilled without
\* going through release
releaseAll_direct(p) == [p EXCEPT !.pool = @ \o p.active, !.active = << >>]

RECURSIVE releaseAll(_)
releaseAll(p) ==
    IF Len(p.active) > 0 THEN releaseAll(release(p, p.active[1])) ELSE p

\* Bounds of the pool model
MaxInitialSize == 2
MaxCreated == 4

OthersUnchangedPool == UNCHANGED <<gsVars, ledgerVars, buildVars, worldVars, loopVars>>

StorePool(p, op, r) ==
    /\ pool' = p.pool
    /\ active' = p.active
    /\ created' = p.created
    /\ poolOp' = op
    /\ poolRet' = r
    /\ resetCalls' = p.resets
    /\ OthersUnchangedPool

InitPoolOf(initialSize) ==
    /\ pool = poolConstructor(initialSize).pool
    /\ active = poolConstructor(initialSize).active
    /\ created = poolConstructor(initialSize).created
    /\ poolOp = "constructor"
    /\ poolRet = NoObject
    /\ resetCalls = << >>

Acquire ==
    LET r == acquire(PoolObj) IN
    /\ r.p.created <= MaxCreated
    /\ StorePool(r.p, "acquire", r.ret)

\* release of any entity of the pool, active or not, or of a foreign object
Release ==
    \E obj \in (1..created) \cup {NoObject} :
        StorePool(release(PoolObj, obj), "release", obj)

ReleaseAll ==
    \E p \in {releaseAll(PoolObj)} : StorePool(p, "releaseAll", NoObject)

----
\* ResourceSystem (ResourceSystem.js)

LedgerScale == 1000
OxygenStart == 100 * LedgerScale

ResourceTypes == {"plastic", "metal", "organic", "seeds", "oxygen"}

ledgerConstructor ==
    [resources |-> [t \in ResourceTypes |-> IF t = "oxygen" THEN OxygenStart ELSE 0],
     listeners |-> 0, calls |-> 0]

Ledger == [resources |-> resources, listeners |-> listeners, calls |-> 0]

\* every subscribed callback is called once
notifyListeners(L) == [L EXCEPT !.calls = @ + L.listeners]

addResource(L, type, amount) ==
    IF type \in DOMAIN L.resources
    THEN notifyListeners([L EXCEPT !.resources[type] = @ + amount])
    ELSE L

\* variant for sensitivity checks: the balance is not compared
removeResource_unchecked(L, type, amount) ==
    IF type \in DOMAIN L.resources
    THEN [L |-> notifyListeners([L EXCEPT !.resources[type] = @ - amount]), ret |-> TRUE]
    ELSE [L |-> L, ret |-> FALSE]

\* resources[type] is undefined for an unknown type, and undefined >= amount is false
removeResource(L, type, amount) ==
    IF type \in DOMAIN L.resources /\ L.resources[type] >= amount
    THEN [L |-> notifyListeners([L EXCEPT !.resources[type] = @ - amount]), ret |-> TRUE]
    ELSE [L |-> L, ret |-> FALSE]

\* a cost map is the sequence of its entries <<type, amount>>, in insertion order
canAfford(L, costs) ==
    \A i \in 1..Len(costs) :
        /\ costs[i][1] \in DOMAIN L.resources
        /\ L.resources[costs[i][1]] >= costs[i][2]

RECURSIVE removeEach(_, _, _)
\* the forEach of deductCosts from entry i on
removeEach(L, costs, i) ==
    IF i > Len(costs) THEN L
    ELSE removeEach(removeResource(L, costs[i][1], costs[i][2]).L, costs, i + 1)

\* variant for sensitivity checks: canAfford is not consulted first
deductCosts_unchecked(L, costs) ==
    [L |-> removeEach(L, costs, 1), ret |-> canAfford(L, costs)]

deductCosts(L, costs) ==
    IF ~canAfford(L, costs) THEN [L |-> L, ret |-> FALSE]
    ELSE [L |-> removeEach(L, costs, 1), ret |-> TRUE]

\* variant for sensitivity checks: no Math.max
drainOxygen_unfloored(L, deltaTime, drainRate) ==
    notifyListeners([L EXCEPT !.resources["oxygen"] = @ - drainRate * deltaTime])

drainOxygen(L, deltaTime, drainRate) ==
    notifyListeners([L EXCEPT !.resources["oxygen"] = Max(0, @ - drainRate * deltaTime)])

subscribe(L) == [L EXCEPT !.listeners = @ + 1, !.calls = @ + 1]

\* BUILDING_CONFIGS (class BuildingSystem)
BuildingTypes == {"recycler", "tree", "oxygen_generator"}

BuildingCost(type) ==
    CASE type = "recycler"         -> << <<"plastic", 10 * LedgerScale>>, <<"metal", 5 * LedgerScale>> >>
      [] type = "tree"             -> << <<"seeds", 1 * LedgerScale>>, <<"organic", 5 * LedgerScale>> >>
      [] type = "oxygen_generator" -> << <<"metal", 20 * LedgerScale>>, <<"plastic", 10 * LedgerScale>> >>

\* Bounds of the ledger model
MaxLedgerTotal == 16000
MaxListeners == 1

\* Inputs of the ledger operations: <<type, amount>>, "gold" is not a resource
LedgerInputs ==
    { <<"metal", 3000>>, <<"metal", 5000>>, <<"plastic", 10000>>, <<"organic", 5000>>,
      <<"seeds", 1000>>, <<"oxygen", 60000>>, <<"gold", 1000>> }

CostMaps ==
    { << <<"metal", 5000>> >>, BuildingCost("recycler"), BuildingCost("tree"),
      << <<"plastic", 10000>>, <<"gold", 1000>> >> }

\* <<deltaTime, drainRate>>
DrainInputs == { <<0, 5>>, <<10, 0>>, <<10, 6000>> }

ledgerTotal(res) == res["plastic"] + res["metal"] + res["organic"] + res["seeds"]

OthersUnchangedLedger == UNCHANGED <<gsVars, poolVars, buildVars, worldVars, loopVars>>

StoreLedger(L, op, arg, r) ==
    /\ resources' = L.resources
    /\ listeners' = L.listeners
    /\ calls' = L.calls
    /\ ledgerOp' = op
    /\ ledgerArg' = arg
    /\ ledgerRet' = r

InitLedger ==
    /\ resources = ledgerConstructor.resources
    /\ listeners = ledgerConstructor.listeners
    /\ calls = ledgerConstructor.calls
    /\ ledgerOp = "constructor"
    /\ ledgerArg = << >>
    /\ ledgerRet = NoRet

AddResource ==
    \E inp \in LedgerInputs :
        LET L == addResource(Ledger, inp[1], inp[2]) IN
        /\ ledgerTotal(L.resources) <= MaxLedgerTotal
        /\ L.resources["oxygen"] <= OxygenStart
        /\ StoreLedger(L, "addResource", inp, NoRet)
        /\ OthersUnchangedLedger

RemoveResource ==
    \E inp \in LedgerInputs :
        LET r == removeResource(Ledger, inp[1], inp[2]) IN
        /\ StoreLedger(r.L, "removeResource", inp, r.ret)
        /\ OthersUnchangedLedger

DeductCosts ==
    \E costs \in CostMaps :
        LET r == deductCosts(Ledger, costs) IN
        /\ StoreLedger(r.L, "deductCosts", costs, r.ret)
        /\ OthersUnchangedLedger

DrainOxygen ==
    \E inp \in DrainInputs :
        /\ StoreLedger(drainOxygen(Ledger, inp[1], inp[2]), "drainOxygen", inp, NoRet)
        /\ OthersUnchangedLedger

Subscribe ==
    /\ listeners < MaxListeners
    /\ StoreLedger(subscribe(Ledger), "subscribe", << >>, NoRet)
    /\ OthersUnchangedLedger

----
\* BuildingSystem (class BuildingSystem) and the ledger part of GravshiftGame.update

MinBuildingDistance == 5
RecyclerRadius == 8
ConversionRate == 1
TreeOxygenRate == 10
GeneratorOxygenRate == 25
FrameDrainRate == 5
MaxDeltaTime == 10

\* Bounds of the building model
MaxBuildings == 2
MaxGameTime == 40

\* Inputs: positions on the ground plane <<x, z>>, frame times, debris lists
Positions == { <<0, 0>>, <<3, 4>>, <<4, 0>>, <<20, 0>> }
FrameDeltas == {5, MaxDeltaTime}
DebrisLists == { << >>, << <<1, 0>> >>, << <<1, 0>>, <<20, 6>> >> }

distSq(a, b) == (a[1] - b[1]) * (a[1] - b[1]) + (a[2] - b[2]) * (a[2] - b[2])

isPositionValid(blds, position, minDistance) ==
    \A i \in 1..Len(blds) : ~(distSq(blds[i].position, position) < minDistance * minDistance)

\* variant for sensitivity checks: the position is not validated
placeBuilding_anywhere(blds, type, position) ==
    IF type \notin BuildingTypes THEN [blds |-> blds, ret |-> FALSE]
    ELSE [blds |-> Append(blds, [type |-> type, position |-> position]), ret |-> TRUE]

\* null for an unknown type or an invalid position; the building is appended to the Map
placeBuilding(blds, type, position) ==
    IF type \notin BuildingTypes THEN [blds |-> blds, ret |-> FALSE]
    ELSE IF ~isPositionValid(blds, position, MinBuildingDistance) THEN [blds |-> blds, ret |-> FALSE]
    ELSE [blds |-> Append(blds, [type |-> type, position |-> position]), ret |-> TRUE]

getBuildingsByType(blds, type) ==
    LET isType(b) == b.type = type IN SelectSeq(blds, isType)

nearbyDebris(recycler, debrisList) ==
    Cardinality({ i \in 1..Len(debrisList) :
                    distSq(debrisList[i], recycler.position) <= RecyclerRadius * RecyclerRadius })

RECURSIVE recyclersFrom(_, _, _, _, _)
\* the forEach of processRecyclers over the recyclers from index i on
recyclersFrom(L, recyclers, deltaTime, debrisList, i) ==
    IF i > Len(recyclers) THEN L
    ELSE LET n  == nearbyDebris(recyclers[i], debrisList)
             L1 == IF n > 0 THEN addResource(L, "seeds", n * ConversionRate * deltaTime) ELSE L
         IN  recyclersFrom(L1, recyclers, deltaTime, debrisList, i + 1)

processRecyclers(L, blds, deltaTime, debrisList) ==
    recyclersFrom(L, getBuildingsByType(blds, "recycler"), deltaTime, debrisList, 1)

RECURSIVE addOxygenTimes(_, _, _)
\* n calls of addResource('oxygen', amount)
addOxygenTimes(L, amount, n) ==
    IF n = 0 THEN L ELSE addOxygenTimes(addResource(L, "oxygen", amount), amount, n - 1)

processOxygenGeneration(L, blds, deltaTime) ==
    LET trees == getBuildingsByType(blds, "tree")
        generators == getBuildingsByType(blds, "oxygen_generator")
        L1 == addOxygenTimes(L, TreeOxygenRate * deltaTime, Len(trees))
    IN  addOxygenTimes(L1, GeneratorOxygenRate * deltaTime, Len(generators))

\* update(), lines "Process building effects" and "Drain oxygen over time"
updateLedger(L, blds, deltaTime, debrisList) ==
    LET L1 == processRecyclers(L, blds, deltaTime, debrisList)
        L2 == processOxygenGeneration(L1, blds, deltaTime)
    IN  drainOxygen(L2, deltaTime, FrameDrainRate)

InitBuild ==
    /\ buildings = << >>
    /\ gameTime = 0

PlaceBuilding ==
    \E type \in BuildingTypes \cup {"unknown"}, position \in Positions :
        LET r == placeBuilding(buildings, type, position) IN
        /\ Len(buildings) < MaxBuildings
        /\ buildings' = r.blds
        /\ ledgerOp' = "placeBuilding"
        /\ ledgerArg' = <<type, position>>
        /\ ledgerRet' = r.ret
        /\ UNCHANGED <<resources, listeners, calls, gameTime>>
        /\ UNCHANGED <<gsVars, poolVars, worldVars, loopVars>>

\* one frame of the running game, as far as the ledger is concerned
UpdateLedger ==
    \E deltaTime \in FrameDeltas, debrisList \in DebrisLists :
        /\ gameTime + deltaTime <= MaxGameTime
        /\ gameTime' = gameTime + deltaTime
        /\ StoreLedger(updateLedger(Ledger, buildings, deltaTime, debrisList),
                       "update", <<deltaTime>>, NoRet)
        /\ UNCHANGED buildings
        /\ UNCHANGED <<gsVars, poolVars, worldVars, loopVars>>

----
\* The debris around the player (main.js, GravshiftGame)

\* Bounds of the collision model
MaxActive == 2
MaxCollected == 3
MaxCarriedDebris == 1

\* Inputs: two of the sizes createDebris draws (0.5 + Math.random() * 1.5),
\* and the three ranges of Math.random() in absorbDebris
DebrisSizes == {10, 18}
RollTypes == {"plastic", "metal", "organic"}

\* the sizes of the entities, in creation order: one size for all of them
SizeMaps == { [e \in 1..MaxCreated |-> size] : size \in DebrisSizes }

\* debrisMass * 0.3, * 0.2 and * 0.25 as ledger amounts per tenth of mass
AwardRate(resourceType) ==
    CASE resourceType = "plastic" -> (3 * LedgerScale) \div (10 * MassScale)
      [] resourceType = "metal" -> (2 * LedgerScale) \div (10 * MassScale)
      [] OTHER -> (25 * LedgerScale) \div (100 * MassScale)

World == [gs |-> GS, L |-> Ledger, p |-> PoolObj, touching |-> touching,
          carried |-> carriedDebris, tested |-> << >>, notes |-> << >>,
          zones |-> zones, nodes |-> debrisNodes, recyclers |-> engineRecyclers,
          rewards |-> << >>]

\* variant for sensitivity checks: the whole mass of the debris is transferred
absorbDebris_whole(w, debris, resourceType) ==
    LET debrisMass == debrisMasses[debris]
        result == addMass(w.gs, debrisMass)
        L1 == addResource(w.L, resourceType, debrisMass * AwardRate(resourceType))
        tierNotes == IF result.ret.tierUp
                     THEN << <<"showTierUp", result.s.tier>> >> ELSE << >>
        unlockNotes == [k \in 1..Len(result.ret.achievements) |->
                            <<"showAchievementUnlock", result.ret.achievements[k]>>]
        previousMission == result.s.currentMission
        completes == /\ previousMission # NoMission
                     /\ missionCondition(previousMission, result.s)
        gs2 == IF completes THEN completeMission(result.s) ELSE result.s
        missionNotes == IF completes
                        THEN << <<"showMissionComplete", previousMission>> >> ELSE << >>
    IN  [w EXCEPT !.gs = gs2, !.L = L1,
                  !.notes = @ \o tierNotes \o unlockNotes \o missionNotes,
                  !.p = release(@, debris),
                  !.touching = @ \ {debris}]

\* absorbDebris(debris); resourceType is the range Math.random() fell in
absorbDebris(w, debris, resourceType) ==
    LET debrisMass == debrisMasses[debris]
        result == addMass(w.gs, debrisMass \div 2)
        L1 == addResource(w.L, resourceType, debrisMass * AwardRate(resourceType))
        tierNotes == IF result.ret.tierUp
                     THEN << <<"showTierUp", result.s.tier>> >> ELSE << >>
        unlockNotes == [k \in 1..Len(result.ret.achievements) |->
                            <<"showAchievementUnlock", result.ret.achievements[k]>>]
        previousMission == result.s.currentMission
        completes == /\ previousMission # NoMission
                     /\ missionCondition(previousMission, result.s)
        gs2 == IF completes THEN completeMission(result.s) ELSE result.s
        missionNotes == IF completes
                        THEN << <<"showMissionComplete", previousMission>> >> ELSE << >>
    IN  [w EXCEPT !.gs = gs2, !.L = L1,
                  !.notes = @ \o tierNotes \o unlockNotes \o missionNotes,
                  !.p = release(@, debris),
                  !.touching = @ \ {debris}]

RECURSIVE collideFrom_snapshot(_, _, _, _)
\* variant for sensitivity checks: the pass walks a copy of the array taken
\* when it starts
collideFrom_snapshot(w, k, debris, rolls) ==
    IF k > Len(debris) THEN w
    ELSE LET d == debris[k] IN
         IF includes(w.carried, d) THEN collideFrom_snapshot(w, k + 1, debris, rolls)
         ELSE LET w1 == [w EXCEPT !.tested = Append(@, d)] IN
              IF d \in w.touching /\ 2 * w.gs.mass > debrisMasses[d]
              THEN collideFrom_snapshot(absorbDebris(w1, d, rolls[k]), k + 1, debris, rolls)
              ELSE collideFrom_snapshot(w1, k + 1, debris, rolls)

RECURSIVE collideFrom(_, _, _, _)
\* the forEach of checkCollisions from array index k on.  The array is the
\* pool's own active array: forEach fixes the index range when it starts,
\* reads the element at each index when it gets there, and does not call
\* back for an index the array no longer has.
collideFrom(w, k, len, rolls) ==
    IF k > len THEN w
    ELSE IF k > Len(w.p.active) THEN collideFrom(w, k + 1, len, rolls)
    ELSE LET d == w.p.active[k] IN
         IF includes(w.carried, d) THEN collideFrom(w, k + 1, len, rolls)
         ELSE LET w1 == [w EXCEPT !.tested = Append(@, d)] IN
              IF d \in w.touching /\ 2 * w.gs.mass > debrisMasses[d]
              THEN collideFrom(absorbDebris(w1, d, rolls[k]), k + 1, len, rolls)
              ELSE collideFrom(w1, k + 1, len, rolls)

checkCollisions(w, rolls) == collideFrom(w, 1, Len(w.p.active), rolls)

\* grabNearbyDebris(); nearest is the nearest debris within grabRange that is
\* not carried, NoObject when there is none
grabNearbyDebris(w, nearest) ==
    IF Len(w.carried) >= MaxCarriedDebris
    THEN [w EXCEPT !.notes = << <<"showNotification", "Carrying too much!">> >>]
    ELSE IF nearest # NoObject
         THEN [w EXCEPT !.carried = Append(@, nearest),
                        !.notes = << <<"showNotification", "Grabbed debris">> >>]
         ELSE [w EXCEPT !.notes = << <<"showNotification", "No debris nearby">> >>]

\* the filter of updateCarriedDebris
updateCarriedDebris(w) ==
    LET isActive(d) == includes(w.p.active, d)
    IN  [w EXCEPT !.carried = SelectSeq(@, isActive)]

----
\* Environmental zones (EnvironmentalSystem.js), and the debris nodes and
\* recycler globes of the engine (GameEngine.js)

\* zone health is kept in 1/200 of a percent, so that a rate of half a
\* percent per second is one unit per hundredth of a second
HealthScale == 200
MaxHealth == 100 * HealthScale
ZoneReach == 10
TreeCleanRate == 3
DegradeRate == HealthScale \div 200

createZone(zs, position, radius, initialHealth) ==
    Append(zs, [position |-> position, radius |-> radius, health |-> initialHealth,
                cleanRate |-> 0, degradeRate |-> DegradeRate])

\* the trees that updateZones counts for a zone
nearbyTrees(zone, blds) ==
    LET near(b) == /\ b.type = "tree"
                   /\ distSq(b.position, zone.position)
                        <= (zone.radius + ZoneReach) * (zone.radius + ZoneReach)
    IN  SelectSeq(blds, near)

\* variant for sensitivity checks: the new health is not clamped
updateZones_unclamped(zs, deltaTime, blds) ==
    [k \in 1..Len(zs) |->
        LET cleanRate == Len(nearbyTrees(zs[k], blds)) * TreeCleanRate
            healthChange == cleanRate * (HealthScale \div 100) - zs[k].degradeRate
        IN  [zs[k] EXCEPT !.cleanRate = cleanRate,
                          !.health = @ + healthChange * deltaTime]]

\* updateZones(deltaTime, buildings)
updateZones(zs, deltaTime, blds) ==
    [k \in 1..Len(zs) |->
        LET cleanRate == Len(nearbyTrees(zs[k], blds)) * TreeCleanRate
            healthChange == cleanRate * (HealthScale \div 100) - zs[k].degradeRate
        IN  [zs[k] EXCEPT !.cleanRate = cleanRate,
                          !.health = Max(0, Min(MaxHealth, @ + healthChange * deltaTime))]]

\* createDebrisNode(position, spawnRate, maxDebris).  lastSpawn is 0 until the
\* node spawns and the time stamp of a frame, written 1, afterwards.
createDebrisNode(nodes, maxDebris) ==
    Append(nodes, [maxDebris |-> maxDebris, lastSpawn |-> 0, activeDebris |-> << >>])

createRecycler(rs, position, radius) ==
    Append(rs, [position |-> position, radius |-> radius])

RECURSIVE releaseEach(_, _)
\* toRemove.forEach(d => this.debrisPool.release(d))
releaseEach(w, toRemove) ==
    IF Len(toRemove) = 0 THEN w
    ELSE releaseEach([w EXCEPT !.p = release(@, Head(toRemove)),
                               !.touching = @ \ {Head(toRemove)}],
                     Tail(toRemove))

\* GameEngine.updateDebris(deltaTime); far holds the debris that are more than
\* 150 units from the origin after they moved
updateDebris(w, far) ==
    LET isFar(d) == d \in far
    IN  releaseEach(w, SelectSeq(w.p.active, isFar))

RECURSIVE updateDebrisNodesFrom(_, _, _)
\* the forEach of updateDebrisNodes from node k on; due holds the nodes whose
\* spawnRate has passed on the wall clock since their lastSpawn.  Date.now()
\* exceeds every spawnRate, so a node whose lastSpawn is 0 is always due.
updateDebrisNodesFrom(w, k, due) ==
    IF k > Len(w.nodes) THEN w
    ELSE LET node == w.nodes[k]
             spawns == /\ node.lastSpawn = 0 \/ k \in due
                       /\ Len(node.activeDebris) < node.maxDebris
             r == acquire(w.p)
             w1 == IF spawns
                   THEN [w EXCEPT !.p = r.p,
                                  !.nodes[k].activeDebris = Append(@, r.ret),
                                  !.nodes[k].lastSpawn = 1]
                   ELSE w
             isActive(d) == includes(w1.p.active, d)
         IN  updateDebrisNodesFrom(
                [w1 EXCEPT !.nodes[k].activeDebris = SelectSeq(@, isActive)], k + 1, due)

updateDebrisNodes(w, due) == updateDebrisNodesFrom(w, 1, due)

RECURSIVE updateRecyclersFrom(_, _, _, _)
\* the absorbed list that updateRecyclers builds from recycler k on.  site is
\* the position of the recycler globe the player is at (NoSite for none) and
\* reach the carried debris closer to it than half its radius.  No code sets
\* userData.seekingRecycler, so the second loop adds nothing.
updateRecyclersFrom(w, k, site, reach) ==
    IF k > Len(w.recyclers) THEN << >>
    ELSE LET inReach(d) == d \in reach
             close == IF w.recyclers[k].position = site
                      THEN SelectSeq(w.carried, inReach) ELSE << >>
         IN  [i \in 1..Len(close) |-> [debris |-> close[i], recycler |-> k]]
                \o updateRecyclersFrom(w, k + 1, site, reach)

updateRecyclers(w, site, reach) == updateRecyclersFrom(w, 1, site, reach)

\* processRecyclerAbsorption(debris, recycler), with absorbDebris of the
\* engine; roll is the range Math.random() fell in
processRecyclerAbsorption(w, item, roll) ==
    LET debris == item.debris
        debrisMass == debrisMasses[debris]
        index == indexOf(w.carried, debris)
        carried1 == IF index > 0 THEN splice(w.carried, index) ELSE w.carried
        resourceAmount == (debrisMass * 2 * LedgerScale) \div MassScale
        L1 == IF roll = "seeds"
              THEN addResource(w.L, "seeds", ((debrisMass * 2) \div (2 * MassScale)) * LedgerScale)
              ELSE addResource(w.L, roll, resourceAmount)
        points == (debrisMass * 10) \div MassScale
    IN  [w EXCEPT !.p = release(@, debris),
                  !.touching = @ \ {debris},
                  !.carried = carried1,
                  !.L = L1,
                  !.gs = addScore(@, points),
                  !.rewards = Append(@, [debris |-> debris, points |-> points]),
                  !.notes = IF Len(carried1) = 0
                            THEN Append(@, <<"showNotification", "All debris recycled!">>)
                            ELSE @]

RECURSIVE processAbsorbed(_, _, _)
\* absorbed.forEach(item => this.processRecyclerAbsorption(item.debris, item.recycler))
processAbsorbed(w, absorbed, roll) ==
    IF Len(absorbed) = 0 THEN w
    ELSE processAbsorbed(processRecyclerAbsorption(w, Head(absorbed), roll),
                         Tail(absorbed), roll)

NoSite == << >>

\* the world after the constructors: no zone, no node, no recycler
InitEnv ==
    /\ zones = << >>
    /\ debrisNodes = << >>
    /\ engineRecyclers = << >>

\* the initial health of the zones: empty, as startGame creates them, nearly
\* full and full
ZoneHealths == {0, 5 * HealthScale, MaxHealth - 5, MaxHealth}

\* the three zones of startGame, created with the same health
InitZonesOf(initialHealth) ==
    /\ zones = createZone(createZone(createZone(<< >>,
                    <<0, 0>>, 50, initialHealth),
                    <<40, 40>>, 40, initialHealth),
                    <<-40, -40>>, 40, initialHealth)
    /\ debrisNodes = << >>
    /\ engineRecyclers = << >>

\* one frame of the running game, as far as the zones are concerned
UpdateZones ==
    \E deltaTime \in FrameDeltas :
        /\ gameTime + deltaTime <= MaxGameTime
        /\ gameTime' = gameTime + deltaTime
        /\ zones' = updateZones(zones, deltaTime, buildings)
        /\ UNCHANGED <<debrisMasses, touching, carriedDebris, tested, notes,
                       debrisNodes, engineRecyclers, rewards>>
        /\ UNCHANGED <<gsVars, poolVars, ledgerVars, buildings, loopVars>>

OthersUnchangedWorld == UNCHANGED <<buildVars, loopVars>>

StoreWorld(w, op) ==
    /\ score' = w.gs.score
    /\ mass' = w.gs.mass
    /\ tier' = w.gs.tier
    /\ currentMission' = w.gs.currentMission
    /\ completedMissions' = w.gs.completedMissions
    /\ achievements' = w.gs.achievements
    /\ timeElapsed' = w.gs.timeElapsed
    /\ debrisAbsorbed' = w.gs.debrisAbsorbed
    /\ timers' = w.gs.timers
    /\ lastOp' = op
    /\ ret' = NoRet
    /\ pool' = w.p.pool
    /\ active' = w.p.active
    /\ created' = w.p.created
    /\ poolOp' = op
    /\ poolRet' = NoObject
    /\ resetCalls' = w.p.resets
    /\ StoreLedger(w.L, op, << >>, NoRet)
    /\ touching' = w.touching
    /\ carriedDebris' = w.carried
    /\ tested' = w.tested
    /\ notes' = w.notes
    /\ zones' = w.zones
    /\ debrisNodes' = w.nodes
    /\ engineRecyclers' = w.recyclers
    /\ rewards' = w.rewards
    /\ UNCHANGED debrisMasses

\* the world before the first frame: nothing active, nothing carried
InitWorldOf(sizes) ==
    /\ debrisMasses = sizes
    /\ touching = {}
    /\ carriedDebris = << >>
    /\ tested = << >>
    /\ notes = << >>
    /\ rewards = << >>

\* createDebris(): a debris enters 50 to 80 units away from the player
CreateDebris ==
    \E r \in {acquire(PoolObj)} :
        /\ Len(active) < MaxActive
        /\ r.p.created <= MaxCreated
        /\ StoreWorld([World EXCEPT !.p = r.p], "createDebris")
        /\ OthersUnchangedWorld

\* the frame moves a debris into or out of contact with the player
MoveDebris ==
    \E d \in {active[k] : k \in 1..Len(active)} :
        /\ StoreWorld([World EXCEPT !.touching =
                            IF d \in @ THEN @ \ {d} ELSE @ \cup {d}], "move")
        /\ OthersUnchangedWorld

GrabNearbyDebris ==
    \E nearest \in {active[k] : k \in 1..Len(active)} \cup {NoObject} :
        /\ ~includes(carriedDebris, nearest)
        /\ StoreWorld(grabNearbyDebris(World, nearest), "grabNearbyDebris")
        /\ OthersUnchangedWorld

\* one draw of Math.random() for each debris that can be absorbed
Rolls ==
    { rolls \in [1..Len(active) -> RollTypes] :
        \A k \in 1..Len(active) : active[k] \notin touching => rolls[k] = "plastic" }

CheckCollisions ==
    \E rolls \in Rolls :
      \E w \in {checkCollisions(World, rolls)} :
        /\ w.gs.debrisAbsorbed <= MaxCollected
        /\ StoreWorld(w, "checkCollisions")
        /\ OthersUnchangedWorld

\* the same pass late in a session
CheckCollisionsLate ==
    \E rolls \in Rolls :
      \E w \in {checkCollisions(World, rolls)} :
        /\ w.gs.debrisAbsorbed <= MaxAbsorbed
        /\ StoreWorld(w, "checkCollisions")
        /\ OthersUnchangedWorld

NoBuilding == "null"

\* the awards that pay for a recycler and a tree
BuilderInputs ==
    { <<"plastic", 10 * LedgerScale>>, <<"metal", 5 * LedgerScale>>,
      <<"organic", 5 * LedgerScale>>, <<"seeds", 1 * LedgerScale>> }

\* addResource, each counter filled up to one award
AddResourceFew ==
    \E inp \in BuilderInputs :
        LET L == addResource(Ledger, inp[1], inp[2]) IN
        /\ L.resources[inp[1]] <= inp[2]
        /\ StoreLedger(L, "addResource", inp, NoRet)
        /\ OthersUnchangedLedger

\* GravshiftGame after its constructor
InitLoop ==
    /\ isRunning = FALSE
    /\ isPaused = FALSE
    /\ buildMode = FALSE
    /\ selectedBuildingType = NoBuilding
    /\ pendingFrames = 0
    /\ loopOp = "constructor"
    /\ frame = NoRet

\* the parts of the game that the progression, pool and ledger models leave alone
InitStill == InitWorldOf([e \in 1..MaxCreated |-> 10]) /\ InitEnv /\ InitLoop

----
\* The frame loop and the event handlers of GravshiftGame (main.js)

\* Bounds of the loop model
MaxStarts == 2
MaxEntities == 8
MaxBusyTime == 20

\* this.maxDebris, scaled down from 90 to one more than the debris that the
\* four nodes spawn when a game starts
MaxDebris == 5

\* the game time, in hundredths of a second, at which the late session is taken up
LateTime == 3000

\* the game time at which the session of the sixth mission is taken up, the
\* number and the mass gain of the absorptions before it, and the length of
\* that session
StallTime == 12000
StallAbsorbs == 55
StallAmount == 3
MaxStallTime == 80

Game == [w |-> World, blds |-> buildings, time |-> gameTime,
         isRunning |-> isRunning, isPaused |-> isPaused,
         buildMode |-> buildMode, selected |-> selectedBuildingType,
         pending |-> pendingFrames, frame |-> NoRet]

\* Inputs of one frame: the elapsed time, whether the timer of spawnDebris
\* has run out, the index of the debris whose contact with the player
\* changes (0 for none), the range of Math.random() in absorbDebris, whether
\* the recycle key is down, the debris that are beyond 150 units, the debris
\* nodes that are due again, the recycler globe the player is at, the carried
\* debris in its reach and the range of Math.random() in
\* processRecyclerAbsorption.  A session of the model is shorter than the
\* shortest spawn interval (0.5 s) and than the shortest spawnRate (2.5 s),
\* and the player stays away from the recycler globes.
FrameInputs ==
    [deltaTime : {MaxDeltaTime}, spawn : {FALSE}, moved : {0},
     roll : {"plastic"}, recycleKey : BOOLEAN, far : {{}}, due : {{}},
     site : {NoSite}, reach : {{}}, recyclerRoll : {"plastic"}]

\* update(deltaTime).  timeElapsed is kept in whole seconds, gameTime in
\* hundredths; every comparison the code makes on timeElapsed is against a
\* whole number of seconds.
update(g, in) ==
    LET time1 == g.time + in.deltaTime
        w1 == [g.w EXCEPT !.gs = updateDifficulty(@, time1 \div 100)]
        w2 == IF in.recycleKey THEN [w1 EXCEPT !.gs = recycle(@).s] ELSE w1
        w3 == updateCarriedDebris(w2)
        w4 == IF in.spawn /\ Len(w3.p.active) < MaxDebris
              THEN [w3 EXCEPT !.p = acquire(@).p] ELSE w3
        w4a == updateDebris(w4, in.far)
        w4b == IF in.moved \in 1..Len(w4a.p.active)
               THEN LET d == w4a.p.active[in.moved]
                    IN  [w4a EXCEPT !.touching = IF d \in @ THEN @ \ {d} ELSE @ \cup {d}]
               ELSE w4a
        w4c == updateDebrisNodes(w4b, in.due)
        w4d == processAbsorbed(w4c, updateRecyclers(w4c, in.site, in.reach),
                               in.recyclerRoll)
        w5 == [w4d EXCEPT !.zones = updateZones(@, in.deltaTime, g.blds)]
        w6 == [w5 EXCEPT !.L = updateLedger(@, g.blds, in.deltaTime, << >>)]
        w7 == checkCollisions(w6, [k \in 1..Len(w6.p.active) |-> in.roll])
    IN  [g EXCEPT !.time = time1, !.w = w7]

\* variant for sensitivity checks: the loop updates and renders while paused
gameLoop_always(g, in) ==
    IF ~g.isRunning
    THEN [g EXCEPT !.frame = [updated |-> FALSE, rendered |-> FALSE, scheduled |-> 0]]
    ELSE [update(g, in) EXCEPT !.pending = @ + 1,
                !.frame = [updated |-> TRUE, rendered |-> TRUE, scheduled |-> 1]]

\* gameLoop(currentTime); in.deltaTime is Math.min((currentTime - lastTime) / 1000, 0.1)
gameLoop(g, in) ==
    IF ~g.isRunning
    THEN [g EXCEPT !.frame = [updated |-> FALSE, rendered |-> FALSE, scheduled |-> 0]]
    ELSE LET g1 == IF ~g.isPaused THEN update(g, in) ELSE g
         IN  [g1 EXCEPT !.pending = @ + 1,
                        !.frame = [updated |-> ~g.isPaused, rendered |-> ~g.isPaused,
                                   scheduled |-> 1]]

\* startGame(): it ends with a direct call of gameLoop(this.lastTime), whose
\* deltaTime is 0
startGame(g, in) ==
    LET zones3 == createZone(createZone(createZone(g.w.zones,
                        <<0, 0>>, 50, 10 * HealthScale),
                        <<40, 40>>, 40, 5 * HealthScale),
                        <<-40, -40>>, 40, 5 * HealthScale)
        nodes4 == createDebrisNode(createDebrisNode(createDebrisNode(createDebrisNode(
                        g.w.nodes, 5), 4), 6), 5)
        recyclers4 == createRecycler(createRecycler(createRecycler(createRecycler(
                        g.w.recyclers, <<60, 0, 0>>, 10), <<-60, 15, -20>>, 8),
                        <<0, -30, 60>>, 12), <<-50, -10, 40>>, 9)
        g1 == [g EXCEPT !.isRunning = TRUE, !.isPaused = FALSE, !.time = 0,
                        !.w.gs = startNewMission(reset(@)),
                        !.w.zones = zones3,
                        !.w.nodes = nodes4,
                        !.w.recyclers = recyclers4,
                        !.w.L = subscribe(@)]
    IN  gameLoop(g1, [in EXCEPT !.deltaTime = 0])

pause(g) == [g EXCEPT !.isPaused = TRUE]

resume(g) == [g EXCEPT !.isPaused = FALSE]

quitGame(g) ==
    [g EXCEPT !.isRunning = FALSE, !.isPaused = FALSE,
              !.w.p = releaseAll(@), !.w.touching = {}]

restartGame(g, in) == startGame(quitGame(g), in)

\* the ESC hotkey
escapeKey(g) == IF g.isRunning /\ ~g.isPaused THEN pause(g) ELSE g

\* the B hotkey and toggleBuildMode()
buildKey(g) ==
    IF g.isRunning /\ ~g.isPaused THEN [g EXCEPT !.buildMode = ~@] ELSE g

\* the hotkeys 1 to 3 and selectBuilding(type)
selectKey(g, type) == IF g.buildMode THEN [g EXCEPT !.selected = type] ELSE g

NoPosition == << >>

\* variant for sensitivity checks: the cost is deducted before the placement
\* is tried
tryPlaceBuilding_early(g, position) ==
    IF g.selected = NoBuilding THEN g
    ELSE IF ~canAfford(g.w.L, BuildingCost(g.selected)) THEN g
    ELSE IF g.selected = "tree" /\ position = NoPosition THEN g
    ELSE LET r == placeBuilding(g.blds, g.selected, position)
         IN  [g EXCEPT !.blds = r.blds,
                       !.w.L = deductCosts(@, BuildingCost(g.selected)).L]

\* tryPlaceBuilding(); position is the place in front of the player, or for
\* a tree what findNearestZonePosition returns: a zone position or null
tryPlaceBuilding(g, position) ==
    IF g.selected = NoBuilding THEN g
    ELSE IF ~canAfford(g.w.L, BuildingCost(g.selected)) THEN g
    ELSE IF g.selected = "tree" /\ position = NoPosition THEN g
    ELSE LET r == placeBuilding(g.blds, g.selected, position)
         IN  IF r.ret
             THEN [g EXCEPT !.blds = r.blds,
                            !.w.L = deductCosts(@, BuildingCost(g.selected)).L]
             ELSE g

\* the click listener of setupHotkeys
click(g, position) ==
    IF g.buildMode /\ g.selected # NoBuilding THEN tryPlaceBuilding(g, position) ELSE g

\* the game after page load
gameConstructor ==
    [w |-> [gs |-> constructor, L |-> ledgerConstructor,
            p |-> poolConstructor(MaxInitialSize), touching |-> {},
            carried |-> << >>, tested |-> << >>, notes |-> << >>,
            zones |-> << >>, nodes |-> << >>, recyclers |-> << >>,
            rewards |-> << >>],
     blds |-> << >>, time |-> 0, isRunning |-> FALSE, isPaused |-> FALSE,
     buildMode |-> FALSE, selected |-> NoBuilding, pending |-> 0, frame |-> NoRet]

\* the state is that of the game g, whose last handler was op
HoldsGame(g, op) ==
    /\ Holds(g.w.gs) /\ lastOp = op /\ ret = NoRet
    /\ pool = g.w.p.pool /\ active = g.w.p.active /\ created = g.w.p.created
    /\ poolOp = op /\ poolRet = NoObject /\ resetCalls = g.w.p.resets
    /\ resources = g.w.L.resources /\ listeners = g.w.L.listeners
    /\ calls = g.w.L.calls /\ ledgerOp = op /\ ledgerArg = << >> /\ ledgerRet = NoRet
    /\ buildings = g.blds /\ gameTime = g.time
    /\ touching = g.w.touching /\ carriedDebris = g.w.carried
    /\ tested = g.w.tested /\ notes = g.w.notes
    /\ zones = g.w.zones /\ debrisNodes = g.w.nodes
    /\ engineRecyclers = g.w.recyclers /\ rewards = g.w.rewards
    /\ isRunning = g.isRunning /\ isPaused = g.isPaused
    /\ buildMode = g.buildMode /\ selectedBuildingType = g.selected
    /\ pendingFrames = g.pending /\ loopOp = op /\ frame = g.frame

\* the inputs of the frame that startGame runs itself
StartInput ==
    [deltaTime |-> 0, spawn |-> FALSE, moved |-> 0, roll |-> "plastic",
     recycleKey |-> FALSE, far |-> {}, due |-> {}, site |-> NoSite, reach |-> {},
     recyclerRoll |-> "plastic"]

StoreGame(g, op) ==
    /\ StoreWorld(g.w, op)
    /\ buildings' = g.blds
    /\ gameTime' = g.time
    /\ isRunning' = g.isRunning
    /\ isPaused' = g.isPaused
    /\ buildMode' = g.buildMode
    /\ selectedBuildingType' = g.selected
    /\ pendingFrames' = g.pending
    /\ loopOp' = op
    /\ frame' = g.frame

\* what keeps the model finite: the number of sessions and their length
Bounded(g) ==
    /\ g.w.L.listeners <= MaxStarts
    /\ g.time <= MaxGameTime

\* the game-start event
StartGame ==
    \E in \in FrameInputs :
      \E g \in {startGame(Game, in)} :
        Bounded(g) /\ StoreGame(g, "start")

\* the game-restart event
RestartGame ==
    \E in \in FrameInputs :
      \E g \in {restartGame(Game, in)} :
        Bounded(g) /\ StoreGame(g, "start")

\* the game-quit event
QuitGame ==
    \E g \in {quitGame(Game)} : StoreGame(g, "event")

\* the game-resume event
Resume ==
    \E g \in {resume(Game)} : StoreGame(g, "event")

EscapeKey ==
    \E g \in {escapeKey(Game)} : StoreGame(g, "event")

BuildKey ==
    \E g \in {buildKey(Game)} : StoreGame(g, "event")

SelectKey ==
    \E type \in BuildingTypes :
      \E g \in {selectKey(Game, type)} : StoreGame(g, "event")

Click ==
    \E position \in Positions \cup {NoPosition} :
        /\ Len(buildings) < MaxBuildings
        /\ position = NoPosition => selectedBuildingType = "tree"
        /\ \E g \in {click(Game, position)} : StoreGame(g, "click")

\* a pending requestAnimationFrame callback runs
GameLoop ==
    \E in \in FrameInputs :
      \E g \in {gameLoop([Game EXCEPT !.pending = @ - 1], in)} :
        /\ pendingFrames > 0
        /\ Bounded(g)
        /\ StoreGame(g, "gameLoop")

\* the E hotkey; nearest is the nearest debris within grabRange that is not
\* carried, NoObject when there is none
grabKey(g, nearest) ==
    IF g.isRunning /\ ~g.isPaused /\ ~g.buildMode
    THEN [g EXCEPT !.w = grabNearbyDebris(@, nearest)]
    ELSE g

GrabKey ==
    \E nearest \in {active[k] : k \in {Len(active)} \ {0}} \cup {NoObject} :
        /\ ~includes(carriedDebris, nearest)
        /\ \E g \in {grabKey(Game, nearest)} : StoreGame(g, "event")

\* what a frame finds: the player in the open field and nothing due, the
\* timer of spawnDebris run out, the first debris node due again, the player
\* at the first recycler globe, or the player more than 150 units from the
\* origin (the boundary at 100 units per axis only pushes back) while the
\* first debris node is due again
BusyFrames ==
    { [place |-> "field", spawn |-> FALSE, due |-> {}],
      [place |-> "field", spawn |-> TRUE, due |-> {}],
      [place |-> "field", spawn |-> FALSE, due |-> {1}],
      [place |-> "recycler", spawn |-> FALSE, due |-> {}],
      [place |-> "outside", spawn |-> FALSE, due |-> {1}] }

\* the inputs of a frame with the player at place: the carried debris orbit
\* the player, three to four units away
busyInput(g, place, spawn, due) ==
    LET carried == {g.w.carried[k] : k \in 1..Len(g.w.carried)}
    IN  [deltaTime |-> MaxDeltaTime, spawn |-> spawn, moved |-> 0, roll |-> "plastic",
         recycleKey |-> FALSE,
         far |-> IF place = "outside" THEN carried ELSE {},
         due |-> due,
         site |-> IF place = "recycler" THEN <<60, 0, 0>> ELSE NoSite,
         reach |-> IF place = "recycler" THEN carried ELSE {},
         recyclerRoll |-> "plastic"]

\* a pending callback runs in a game whose spawner, nodes and recycler
\* globes are at work
GameLoopBusy ==
    \E f \in BusyFrames :
      \E g \in {gameLoop([Game EXCEPT !.pending = @ - 1],
                         busyInput(Game, f.place, f.spawn, f.due))} :
        /\ pendingFrames > 0
        /\ Bounded(g)
        /\ g.time <= MaxBusyTime
        /\ g.w.p.created <= MaxEntities
        /\ StoreGame(g, "gameLoop")

\* the same callback in the session of the sixth mission: the frame may bring
\* a debris into contact with the player, and the recycle key may be down
GameLoopStall ==
    \E absorb \in BOOLEAN, recycleKey \in BOOLEAN :
      \E g \in {gameLoop([Game EXCEPT !.pending = @ - 1],
                         [StartInput EXCEPT !.deltaTime = MaxDeltaTime,
                                            !.spawn = absorb,
                                            !.moved = IF absorb THEN Len(active) + 1 ELSE 0,
                                            !.recycleKey = recycleKey])} :
        /\ pendingFrames > 0
        /\ g.time <= StallTime + MaxStallTime
        /\ StoreGame(g, "gameLoop")

\* the same callback late in a session
GameLoopLate ==
    \E in \in FrameInputs :
      \E g \in {gameLoop([Game EXCEPT !.pending = @ - 1], in)} :
        /\ pendingFrames > 0
        /\ g.time <= LateTime + MaxGameTime
        /\ StoreGame(g, "gameLoop")

----
\* Specifications

InitGS ==
    /\ Holds(constructor)
    /\ lastOp = "constructor"
    /\ ret = NoRet

\* the progression state after many absorptions
InitDeep ==
    \E n \in DeepAbsorbs, amount \in DeepAmounts :
      \E s \in {absorbMany(reset(constructor), amount, n)} :
        /\ Holds(s)
        /\ lastOp = "addMass"
        /\ ret = NoRet

\* addMass, recycle, reset and the delayed reselection
NextMission ==
    \/ AddMass
    \/ Recycle
    \/ Reset
    \/ Tick
    \/ TimerFire

InitMission ==
    InitGS /\ InitPoolOf(MaxInitialSize) /\ InitLedger /\ InitBuild /\ InitStill

SpecMission == InitMission /\ [][NextMission]_vars

\* the operations that evaluate the achievements
NextState ==
    \/ AddMassFew
    \/ Recycle
    \/ AddScore
    \/ UpdateDifficulty
    \/ CheckAchievements
    \/ Reset

SpecState == InitMission /\ [][NextState]_vars

\* late in a session
NextDeep ==
    \/ AddMassDeep
    \/ Recycle
    \/ Reset
    \/ Tick
    \/ TimerFire

InitLate ==
    InitDeep /\ InitPoolOf(MaxInitialSize) /\ InitLedger /\ InitBuild /\ InitStill

SpecDeep == InitLate /\ [][NextDeep]_vars

\* recycle from every mass that one addMass can leave
MaxMassInput == 2500

InitRecycle ==
    /\ \E amount \in 0..MaxMassInput :
         \E s \in {addMass(reset(constructor), amount).s} :
            /\ Holds(s)
            /\ lastOp = "addMass"
            /\ ret = NoRet
    /\ InitPoolOf(MaxInitialSize)
    /\ InitLedger
    /\ InitBuild
    /\ InitStill

NextRecycle == Recycle

SpecRecycle == InitRecycle /\ [][NextRecycle]_vars

\* the debris of a started game: spawning, drifting, grabbing, colliding
InitCollide ==
    /\ \E s \in {reset(constructor)} :
            Holds(s) /\ lastOp = "reset" /\ ret = NoRet
    /\ InitPoolOf(MaxInitialSize)
    /\ InitLedger
    /\ InitBuild
    /\ \E sizes \in SizeMaps : InitWorldOf(sizes)
    /\ InitEnv
    /\ InitLoop

NextCollide ==
    \/ CreateDebris
    \/ MoveDebris
    \/ GrabNearbyDebris
    \/ CheckCollisions

SpecCollide == InitCollide /\ [][NextCollide]_vars

\* absorption counts just below the threshold of the first mission
LateAbsorbs == {8, 9}

\* a started game after n absorptions of debris of mass 1.0, each awarding
\* plastic, every debris back in the pool
InitLateCollide ==
    /\ \E n \in LateAbsorbs :
         /\ \E s \in {absorbMany(reset(constructor), 10 \div 2, n)} :
                Holds(s) /\ lastOp = "checkCollisions" /\ ret = NoRet
         /\ \E L \in {addResource(ledgerConstructor, "plastic",
                                   n * 10 * AwardRate("plastic"))} :
                /\ resources = L.resources
                /\ listeners = L.listeners
                /\ calls = L.calls
                /\ ledgerOp = "checkCollisions"
                /\ ledgerArg = << >>
                /\ ledgerRet = NoRet
    /\ InitPoolOf(MaxInitialSize)
    /\ InitBuild
    /\ InitWorldOf([e \in 1..MaxCreated |-> 10])
    /\ InitEnv
    /\ InitLoop

NextLateCollide ==
    \/ CreateDebris
    \/ MoveDebris
    \/ CheckCollisionsLate

SpecLateCollide == InitLateCollide /\ [][NextLateCollide]_vars

\* the game events and the frame callbacks, from page load
NextLoop ==
    \/ StartGame
    \/ RestartGame
    \/ QuitGame
    \/ Resume
    \/ EscapeKey
    \/ GameLoop

SpecLoop == InitMission /\ [][NextLoop]_vars

\* a running game thirty seconds after its start, right after the frame whose
\* tenth absorption (debris of mass 1.0, each awarding plastic) completed the
\* first mission: the reselection timer has just been started
InitLoopLate ==
    /\ \E s \in {addMass(updateDifficulty(absorbMany(reset(constructor), 10 \div 2, 9),
                                           LateTime \div 100), 10 \div 2).s} :
            Holds(s) /\ lastOp = "gameLoop" /\ ret = NoRet
    /\ \E L \in {drainOxygen(addResource(subscribe(ledgerConstructor), "plastic",
                                        10 * 10 * AwardRate("plastic")),
                            LateTime, FrameDrainRate)} :
            /\ resources = L.resources
            /\ listeners = L.listeners
            /\ calls = 0
            /\ ledgerOp = "gameLoop"
            /\ ledgerArg = << >>
            /\ ledgerRet = NoRet
    /\ InitPoolOf(MaxInitialSize)
    /\ buildings = << >>
    /\ gameTime = LateTime
    /\ InitWorldOf([e \in 1..MaxCreated |-> 10])
    /\ \E w \in {startGame(gameConstructor, StartInput).w} :
            /\ zones = updateZones(w.zones, LateTime, << >>)
            /\ debrisNodes = [k \in 1..Len(w.nodes) |->
                                [w.nodes[k] EXCEPT !.activeDebris = << >>]]
            /\ engineRecyclers = w.recyclers
    /\ isRunning = TRUE
    /\ isPaused = FALSE
    /\ buildMode = FALSE
    /\ selectedBuildingType = NoBuilding
    /\ pendingFrames = 1
    /\ loopOp = "gameLoop"
    /\ frame = [updated |-> TRUE, rendered |-> TRUE, scheduled |-> 1]

\* the events, the frame callbacks and the timers of that session
NextLoopLate ==
    \/ QuitGame
    \/ Resume
    \/ EscapeKey
    \/ BuildKey
    \/ SelectKey
    \/ Click
    \/ GameLoopLate
    \/ Tick
    \/ TimerFire

SpecLoopLate == InitLoopLate /\ [][NextLoopLate]_vars

\* building in a started game whose ledger is being filled
InitBuilder ==
    /\ debrisMasses = [e \in 1..MaxCreated |-> 10]
    /\ \E g \in {startGame(gameConstructor, StartInput)} : HoldsGame(g, "start")

NextBuilder ==
    \/ AddResourceFew
    \/ BuildKey
    \/ SelectKey
    \/ Click

SpecBuilder == InitBuilder /\ [][NextBuilder]_vars

NextPool ==
    \/ Acquire
    \/ Release
    \/ ReleaseAll

InitPool ==
    /\ InitGS /\ InitLedger /\ InitBuild /\ InitStill
    /\ \E initialSize \in 0..MaxInitialSize : InitPoolOf(initialSize)

SpecPool == InitPool /\ [][NextPool]_vars

NextLedger ==
    \/ AddResource
    \/ RemoveResource
    \/ DeductCosts
    \/ DrainOxygen
    \/ Subscribe

SpecLedger == InitMission /\ [][NextLedger]_vars

NextOxygen ==
    \/ PlaceBuilding
    \/ UpdateLedger

SpecOxygen == InitMission /\ [][NextOxygen]_vars

\* a running game two minutes after its start: 55 debris of mass 0.6 have
\* been absorbed, more than two seconds apart, each awarding plastic; the
\* first five missions are completed, reach_tier_4 is current and the mass is
\* 17.5, half a unit below tier 4
InitStall ==
    /\ \E s \in {updateDifficulty(absorbMany(reset(constructor), StallAmount, StallAbsorbs),
                                   StallTime \div 100)} :
            Holds(s) /\ lastOp = "gameLoop" /\ ret = NoRet
    /\ \E L \in {drainOxygen(addResource(subscribe(ledgerConstructor), "plastic",
                        StallAbsorbs * 2 * StallAmount * AwardRate("plastic")),
                    StallTime, FrameDrainRate)} :
            /\ resources = L.resources
            /\ listeners = L.listeners
            /\ calls = 0
            /\ ledgerOp = "gameLoop"
            /\ ledgerArg = << >>
            /\ ledgerRet = NoRet
    /\ InitPoolOf(MaxInitialSize)
    /\ buildings = << >>
    /\ gameTime = StallTime
    /\ InitWorldOf([e \in 1..MaxCreated |-> 18])
    /\ \E w \in {startGame(gameConstructor, StartInput).w} :
            /\ zones = updateZones(w.zones, StallTime, << >>)
            /\ debrisNodes = [k \in 1..Len(w.nodes) |->
                                [w.nodes[k] EXCEPT !.activeDebris = << >>]]
            /\ engineRecyclers = w.recyclers
    /\ isRunning = TRUE
    /\ isPaused = FALSE
    /\ buildMode = FALSE
    /\ selectedBuildingType = NoBuilding
    /\ pendingFrames = 1
    /\ loopOp = "gameLoop"
    /\ frame = [updated |-> TRUE, rendered |-> TRUE, scheduled |-> 1]

NextStall ==
    \/ GameLoopStall
    \/ Tick
    \/ TimerFire

\* a step of the session in which a pending frame callback runs: the game is
\* running and not paused, so the frame advances the game time
FrameRuns ==
    /\ pendingFrames > 0
    /\ gameTime + MaxDeltaTime <= StallTime + MaxStallTime
    /\ gameTime' = gameTime + MaxDeltaTime

\* the frames keep running for the length of the session, time keeps passing
\* and every setTimeout callback that is due runs
SpecStall ==
    /\ InitStall /\ [][NextStall]_vars
    /\ WF_gameTime(FrameRuns) /\ WF_timers(Tick) /\ WF_timers(TimerFire)

\* a game that has just been started for the first time
InitBusy ==
    /\ debrisMasses = [e \in 1..MaxEntities |-> 10]
    /\ \E g \in {startGame(gameConstructor, StartInput)} : HoldsGame(g, "start")

NextBusy ==
    \/ GameLoopBusy
    \/ GrabKey
    \/ RestartGame

SpecBusy == InitBusy /\ [][NextBusy]_vars

InitZones ==
    /\ InitGS /\ InitPoolOf(MaxInitialSize) /\ InitLedger /\ InitBuild
    /\ InitWorldOf([e \in 1..MaxCreated |-> 10]) /\ InitLoop
    /\ \E initialHealth \in ZoneHealths : InitZonesOf(initialHealth)

NextZones ==
    \/ PlaceBuilding
    \/ UpdateZones

SpecZones == InitZones /\ [][NextZones]_vars

----
\* Properties of the progression state

\* C1: in every state reached through addMass, recycle and reset, the stored
\* tier is calculateTier of the current mass
C1_TierMatchesMass == tier = calculateTier(mass)

\* a recycle has lowered the mass of a state that had reached tier 3 back to tier 2
C1_Witness == lastOp = "recycle" /\ tier = 2 /\ achievements[5] /\ debrisAbsorbed > 0

\* the catalog positions startNewMission may choose from
availableIndexes(completed, t) ==
    { i \in 1..Len(Missions) :
        /\ \A j \in 1..Len(completed) : completed[j] # Missions[i].id
        /\ Missions[i].difficulty <= t }

\* C7: a selection (by reset or by the delayed callback) makes current the first
\* catalog entry that is not completed and whose difficulty is at most the tier,
\* a function of the completed set and the tier alone; when no entry qualifies
\* the callback leaves the current mission as it was
C7_FirstAvailable ==
    [][lastOp' \in {"timer", "reset"} =>
        LET avail == availableIndexes(completedMissions', tier')
        IN  IF avail # {}
            THEN currentMission' =
                     Missions[CHOOSE i \in avail : \A j \in avail : i <= j].id
            ELSE currentMission' = IF lastOp' = "reset" THEN NoMission ELSE currentMission]_vars

\* the callback has selected the sixth mission after five completions
C7_Witness ==
    /\ lastOp = "timer"
    /\ Len(completedMissions) = 5
    /\ currentMission = "reach_tier_4"
    /\ tier >= 3

\* C8 (effects of a completion): the id of the current mission is appended to
\* the completed list, at least its reward is added to the score, the current
\* mission becomes empty and one callback is scheduled TimerDelay seconds ahead
C8_CompletionEffect ==
    [][Len(completedMissions') > Len(completedMissions) =>
        /\ currentMission # NoMission
        /\ completedMissions' = Append(completedMissions, currentMission)
        /\ score' >= score + missionById(currentMission).reward
        /\ currentMission' = NoMission
        /\ timers' = Append(timers, TimerDelay)]_vars

\* C8: after a completion has emptied the current mission, a mission becomes
\* current again only by reset, or by a callback once the delay of the callback
\* that this completion scheduled (the last one pending) has elapsed
C8_NoEarlyReselection ==
    [][(currentMission = NoMission /\ currentMission' # NoMission) =>
        \/ lastOp' = "reset"
        \/ /\ lastOp' = "timer"
           /\ timers[Len(timers)] = 0]_vars

\* C9: the completed list has no duplicate, never holds the id of the current
\* mission, and every step other than reset extends it
C9_CompletedOnce ==
    /\ [](/\ \A i, j \in 1..Len(completedMissions) :
                completedMissions[i] = completedMissions[j] => i = j
          /\ ~includes(completedMissions, currentMission))
    /\ [][lastOp' # "reset" =>
            /\ Len(completedMissions') >= Len(completedMissions)
            /\ SubSeq(completedMissions', 1, Len(completedMissions)) = completedMissions]_vars

\* a callback scheduled before a reset has fired after it, while the callback
\* of the completion of the new session is still pending
C9_Witness ==
    /\ lastOp = "timer"
    /\ Len(completedMissions) = 1
    /\ Len(timers) = 1
    /\ timers[1] > 0
    /\ currentMission = "reach_mass_3"

\* C10: an achievement that is unlocked stays unlocked in every step, reset included
C10_UnlockedForever ==
    [][\A i \in 1..NumAchievements : achievements[i] => achievements'[i]]_vars

\* a reset has kept the flags of the achievements of mass and of score
C10_Witness ==
    /\ lastOp = "reset"
    /\ achievements[1]
    /\ achievements[3]
    /\ achievements[7]

----
\* Properties of the achievements

\* C11: in every step other than reset the score rises by what the operation
\* awards plus one bonus of 50 for each achievement that the step unlocks, and
\* by nothing for an achievement that was unlocked before; no flag is cleared,
\* so each achievement awards its bonus once
C11_BonusOnce ==
    [][lastOp' # "reset" =>
        LET unlockedNow == {i \in 1..NumAchievements : ~achievements[i] /\ achievements'[i]}
            gained == score' - score - AchievementBonus * Cardinality(unlockedNow)
        IN  /\ \A i \in 1..NumAchievements : achievements[i] => achievements'[i]
            /\ CASE lastOp' = "recycle" -> gained = ret'
                  [] lastOp' = "addScore" -> gained \in ScorePoints
                  [] OTHER -> gained = 0]_vars

\* the bonus of the first absorption has lifted the score from 950 to 1000,
\* which unlocked score_1000 in the nested check: two bonuses, 1050
C11_Witness ==
    /\ lastOp = "addMass"
    /\ debrisAbsorbed = 1
    /\ achievements[1]
    /\ achievements[7]
    /\ score = 1050

\* C12: the batch returned by addMass or checkAchievements lists, once each,
\* exactly the achievements that the call has unlocked
C12_ReportedOnce ==
    [][lastOp' \in {"addMass", "checkAchievements"} =>
        LET batch == IF lastOp' = "addMass" THEN ret'.achievements ELSE ret'
            unlockedNow == {i \in 1..NumAchievements : ~achievements[i] /\ achievements'[i]}
        IN  /\ unlockedNow = {batch[k] : k \in 1..Len(batch)}
            /\ Len(batch) = Cardinality(unlockedNow)]_vars

----
\* Properties of recycle and calculateTier

\* the whole part of a quarter of the mass m, in units of mass
quarterFloor(m) ==
    CHOOSE r \in 0..m : 4 * r * MassScale <= m /\ m < 4 * (r + 1) * MassScale

----
\* Properties of the collision pass

activeSet == {active[k] : k \in 1..Len(active)}
carriedSet == {carriedDebris[k] : k \in 1..Len(carriedDebris)}

\* C14: one checkCollisions pass distance-tests every active debris that is
\* not carried exactly once, and absorbs every one of them that touches the
\* player and is absorbable, whatever was released earlier in the pass
C14_EveryDebrisTested ==
    [][lastOp' = "checkCollisions" =>
        LET eligible == activeSet \ carriedSet
        IN  /\ {tested'[k] : k \in 1..Len(tested')} = eligible
            /\ Len(tested') = Cardinality(eligible)
            /\ \A d \in eligible \cap touching :
                    2 * mass > debrisMasses[d] =>
                        ~includes(active', d)]_vars

\* C13: whenever absorbing a debris completes the current mission,
\* ui.showMissionComplete is called for that mission in the same absorption
C13_MissionShown ==
    [][lastOp' = "checkCollisions" /\ Len(completedMissions') > Len(completedMissions) =>
        \A k \in (Len(completedMissions) + 1)..Len(completedMissions') :
            <<"showMissionComplete", completedMissions'[k]>> \in
                {notes'[j] : j \in 1..Len(notes')}]_vars

RECURSIVE sumMasses(_)
sumMasses(S) ==
    IF S = {} THEN 0
    ELSE LET d == CHOOSE x \in S : TRUE IN debrisMasses[d] + sumMasses(S \ {d})

noteSet == {notes[k] : k \in 1..Len(notes)}

----
\* Properties of acquire, release and releaseAll

RECURSIVE acquireTimes(_, _)
acquireTimes(p, n) == IF n = 0 THEN p ELSE acquireTimes(acquire(p).p, n - 1)

\* C21: a pool pre-warmed with k entities has, after n acquires and no
\* release, n active entities and max(k - n, 0) free ones; releaseAll leaves
\* nothing active, passes every entity that was active to the reset function
\* exactly once and puts it back in the free list
C21_AcquireReleaseAll ==
    /\ \A k \in 0..MaxInitialSize, n \in 0..MaxCreated :
            LET p == acquireTimes(poolConstructor(k), n)
            IN  Len(p.active) = n /\ Len(p.pool) = Max(k - n, 0)
    /\ [][/\ poolOp' = "acquire" =>
                /\ Len(active') = Len(active) + 1
                /\ Len(pool') = Max(Len(pool) - 1, 0)
          /\ poolOp' = "releaseAll" =>
                /\ active' = << >>
                /\ Len(resetCalls') = Len(active)
                /\ \A k \in 1..Len(active) :
                        /\ Cardinality({j \in 1..Len(resetCalls') :
                                            resetCalls'[j] = active[k]}) = 1
                        /\ includes(pool', active[k])]_vars

\* a pool pre-warmed with two entities grew to three, and all three were
\* released at once
C21_Witness ==
    /\ poolOp = "releaseAll"
    /\ created = 3
    /\ Len(resetCalls) = 3
    /\ Len(pool) = 3
    /\ active = << >>

\* C22: release of an entity that is not active changes neither list and
\* does not call the reset function; a second release of the same entity
\* changes nothing
C22_ReleaseInactive ==
    /\ \A obj \in (1..created) \cup {NoObject} :
            LET p1 == release(PoolObj, obj)
                p2 == release([p1 EXCEPT !.resets = << >>], obj)
            IN  p2.pool = p1.pool /\ p2.active = p1.active /\ p2.resets = << >>
    /\ [][poolOp' = "release" /\ ~includes(active, poolRet') =>
                pool' = pool /\ active' = active /\ resetCalls' = << >>]_vars

\* a free entity was released again while another one is active
C22_Witness ==
    /\ poolOp = "release"
    /\ poolRet # NoObject
    /\ includes(pool, poolRet)
    /\ resetCalls = << >>
    /\ Len(active) > 0

----
\* Properties of building placement

\* C23: any two distinct placed buildings are at least minBuildingDistance
\* apart; placeBuilding closer than that to a building, or with an unknown
\* type, returns null and leaves the buildings unchanged
C23_BuildingsApart ==
    /\ [](\A i, j \in 1..Len(buildings) :
            i # j => distSq(buildings[i].position, buildings[j].position)
                        >= MinBuildingDistance * MinBuildingDistance)
    /\ [][ledgerOp' = "placeBuilding" =>
            LET type == ledgerArg'[1]
                position == ledgerArg'[2]
                tooClose == \E i \in 1..Len(buildings) :
                                distSq(buildings[i].position, position)
                                    < MinBuildingDistance * MinBuildingDistance
            IN  IF type \notin BuildingTypes \/ tooClose
                THEN ledgerRet' = FALSE /\ buildings' = buildings
                ELSE ledgerRet' = TRUE /\ Len(buildings') = Len(buildings) + 1]_vars

\* a placement four units from the only building has just been refused
C23_Witness ==
    /\ ledgerOp = "placeBuilding"
    /\ ledgerRet = FALSE
    /\ ledgerArg[1] \in BuildingTypes
    /\ Len(buildings) = 1
    /\ distSq(buildings[1].position, ledgerArg[2]) = 16

\* C24: a placement attempt adds a building only if the ledger can afford
\* its cost and the position is valid, and then the ledger decreases by
\* exactly that cost; a failed attempt leaves ledger and buildings unchanged
C24_PlacementPaid ==
    [][ledgerOp' = "click" =>
        IF Len(buildings') > Len(buildings)
        THEN /\ buildMode /\ selectedBuildingType # NoBuilding
             /\ LET cost == BuildingCost(selectedBuildingType)
                    paid(type) == IF \E i \in 1..Len(cost) : cost[i][1] = type
                                  THEN (CHOOSE c \in {cost[i] : i \in 1..Len(cost)} :
                                            c[1] = type)[2]
                                  ELSE 0
                    placed == buildings'[Len(buildings')]
                IN  /\ buildings' = Append(buildings, placed)
                    /\ placed.type = selectedBuildingType
                    /\ canAfford(Ledger, cost)
                    /\ isPositionValid(buildings, placed.position, MinBuildingDistance)
                    /\ \A type \in DOMAIN resources :
                            resources'[type] = resources[type] - paid(type)
        ELSE buildings' = buildings /\ resources' = resources]_vars

\* a recycler has just been placed with the ledger's last plastic and metal
C24_Witness ==
    /\ ledgerOp = "click"
    /\ Len(buildings) = 1
    /\ buildings[1].type = "recycler"
    /\ resources["plastic"] = 0
    /\ resources["metal"] = 0

\* C25: the health of every zone stays between 0 and 100; in a frame it
\* does not increase in a zone that has no tree within radius + 10, and it
\* increases only in a zone that has one
C25_ZoneHealth ==
    /\ [](\A k \in 1..Len(zones) : zones[k].health \in 0..MaxHealth)
    /\ [][\A k \in 1..Len(zones) :
            k <= Len(zones') /\ zones'[k].health > zones[k].health =>
                \E i \in 1..Len(buildings) :
                    /\ buildings[i].type = "tree"
                    /\ distSq(buildings[i].position, zones[k].position)
                            <= (zones[k].radius + ZoneReach) * (zones[k].radius + ZoneReach)]_vars

\* frames have raised the second zone, which has a tree, from nearly full to
\* full health and degraded the third, which has none
C25_Witness ==
    /\ Len(zones) = 3
    /\ gameTime > 0
    /\ zones[2].health = MaxHealth
    /\ zones[2].cleanRate = TreeCleanRate
    /\ zones[3].health = MaxHealth - 5 - gameTime
    /\ zones[3].cleanRate = 0

----
\* Properties of the debris in a running game

\* C26: in every state of a running game at most maxDebris debris are active
C26_DebrisCapped == isRunning => Len(active) <= MaxDebris

\* C28: a frame rewards a debris that a recycler globe absorbs once: no
\* debris is rewarded twice by the same frame, in any session
C28_RewardedOnce ==
    \A i, j \in 1..Len(rewards) : i # j => rewards[i].debris # rewards[j].debris

\* C29: after every startGame the game has the zones, debris nodes, recycler
\* globes and ledger subscribers of the first one: 3, 4, 4 and 1
C29_WorldAsFirst ==
    loopOp = "start" =>
        /\ Len(zones) = 3
        /\ Len(debrisNodes) = 4
        /\ Len(engineRecyclers) = 4
        /\ listeners = 1

\* C30: a debris that a step releases to the pool is not carried after the
\* step, and no more than maxCarriedDebris debris are carried
C30_CarriedWasGrabbed ==
    /\ [](Len(carriedDebris) <= MaxCarriedDebris)
    /\ [][\A k \in 1..Len(carriedDebris') :
            includes(carriedDebris, carriedDebris'[k])
                => ~includes(resetCalls', carriedDebris'[k])]_vars

----
\* Properties of the frame loop

\* C15: through any sequence of game-start, pause, resume, game-restart and
\* game-quit events and frame callbacks, at most one gameLoop callback is
\* pending
C15_SingleLoop == pendingFrames <= 1

\* C17: a gameLoop invocation in a paused running game updates and renders
\* nothing and schedules exactly one callback; in a game that is not running
\* it schedules nothing; and isPaused implies isRunning in every state
C17_PausedLoop ==
    /\ [](isPaused => isRunning)
    /\ [][loopOp' = "gameLoop" =>
            /\ (isRunning /\ isPaused) =>
                    /\ frame' = [updated |-> FALSE, rendered |-> FALSE, scheduled |-> 1]
                    /\ pendingFrames' = pendingFrames - 1 + 1
                    /\ UNCHANGED <<score, mass, tier, currentMission, completedMissions,
                                   achievements, timeElapsed, debrisAbsorbed, timers,
                                   pool, active, resources, buildings, gameTime,
                                   touching, carriedDebris>>
            /\ ~isRunning =>
                    /\ frame'.scheduled = 0
                    /\ pendingFrames' = pendingFrames - 1]_vars

C17_Witness ==
    /\ loopOp = "gameLoop"
    /\ isRunning /\ isPaused
    /\ frame = [updated |-> FALSE, rendered |-> FALSE, scheduled |-> 1]
    /\ pendingFrames = 1
    /\ gameTime = MaxDeltaTime

\* C16: while the game is paused or not running, none of mass, tier, score,
\* current mission, ledger counters and buildings changes
C16_FrozenWhilePaused ==
    [][(isPaused \/ ~isRunning) /\ (isPaused' \/ ~isRunning') =>
            UNCHANGED <<mass, tier, score, currentMission, resources, buildings>>]_vars

----
\* Properties of the object pool

\* C2: every entity created by the pool is exactly once in the free list or
\* the active list, and the two lists together hold as many entities as were created
C2_PoolPartition ==
    /\ \A e \in 1..created :
           Cardinality({i \in 1..Len(pool \o active) : (pool \o active)[i] = e}) = 1
    /\ Len(pool) + Len(active) = created

\* an entity created on demand has been released while another one is active
C2_Witness ==
    /\ poolOp = "release"
    /\ poolRet = 3
    /\ pool = <<3>>
    /\ Len(active) = 2

----
\* Properties of the resource ledger

\* C3: removeResource returns true and subtracts the amount exactly when the
\* type is known and its balance is at least the amount; otherwise it returns
\* false, changes no counter and calls no listener
C3_RemoveResource ==
    [][ledgerOp' = "removeResource" =>
        LET type == ledgerArg'[1]
            amount == ledgerArg'[2]
            enough == type \in ResourceTypes /\ resources[type] >= amount
        IN  /\ ledgerRet' = enough
            /\ enough => resources' = [resources EXCEPT ![type] = @ - amount]
            /\ ~enough => resources' = resources /\ calls' = 0]_vars

\* a removal of more metal than is held has failed with a listener subscribed
C3_Witness ==
    /\ ledgerOp = "removeResource"
    /\ ledgerRet = FALSE
    /\ ledgerArg = <<"metal", 5000>>
    /\ resources["metal"] = 3000
    /\ listeners = 1
    /\ calls = 0

\* the amount a cost map asks of a resource type
costOf(costs, type) ==
    IF \E i \in 1..Len(costs) : costs[i][1] = type
    THEN costs[CHOOSE i \in 1..Len(costs) : costs[i][1] = type][2]
    ELSE 0

\* C4: deductCosts returns false and changes no counter when some entry of the
\* cost map exceeds its balance; otherwise it returns true and has subtracted
\* every entry once, leaving the other counters as they were
C4_AllOrNothing ==
    [][ledgerOp' = "deductCosts" =>
        LET costs == ledgerArg'
            affordable == \A i \in 1..Len(costs) :
                              /\ costs[i][1] \in ResourceTypes
                              /\ resources[costs[i][1]] >= costs[i][2]
        IN  /\ ledgerRet' = affordable
            /\ resources' = IF affordable
                            THEN [t \in ResourceTypes |-> resources[t] - costOf(costs, t)]
                            ELSE resources]_vars

\* the cost {metal: 5} has been refused with 3 metal held
C4_Witness ==
    /\ ledgerOp = "deductCosts"
    /\ ledgerRet = FALSE
    /\ ledgerArg = << <<"metal", 5000>> >>
    /\ resources["metal"] = 3000

\* C5: every counter of the ledger is at least 0
C5_NonNegative == \A t \in ResourceTypes : resources[t] >= 0

\* a drain larger than the oxygen left has stopped at 0
C5_Witness ==
    /\ ledgerOp = "drainOxygen"
    /\ ledgerArg = <<10, 6000>>
    /\ resources["oxygen"] = 0

\* C6: the oxygen counter never exceeds 100
C6_OxygenCapped == resources["oxygen"] <= OxygenStart

====
